---- MODULE Spec2Model ----
(***************************************************************************)
(* Geocode resolution and aggregation pipelines of the campaign-donation   *)
(* scripts: make_half_aggregated.py ("half"), map-to-municipality.py       *)
(* ("muni") and the totals report of analyze-data.py.                      *)
(*                                                                         *)
(* Representation.                                                         *)
(*  - A Python str is a sequence of one-character strings.                 *)
(*  - None is the empty tuple.  Every place of the modelled code that can  *)
(*    see None tests it by truthiness ("x or ''", "if not x"), which does  *)
(*    not tell None from '' or [], so the two are one value here.          *)
(*  - A float is a pair <<w, f>> standing for w + f/Scale with w the floor *)
(*    and 0 <= f < Scale.  One unit is 5e-10, the finest decimal grid on   *)
(*    which 1e-9 is a whole number of units and Scale still fits 32 bits.  *)
(*    Sums are exact on this grid; binary64 rounding is not modelled.      *)
(*  - A csv.DictReader row is the sequence of its <<key, value>> pairs in  *)
(*    header order (dict iteration order).                                 *)
(***************************************************************************)
EXTENDS Integers, Sequences, FiniteSets, TLC

VARIABLES
    script,      \* which program runs: "half", "muni", or a function-level harness
    pc,          \* position of the program, or the exception that ended it
    zip_exists,  \* a reference ZIP csv can be found
    geo_exists,  \* the municipalities geojson exists
    nread,       \* rows consumed by the reader that is open now
    zip_map,     \* zip_map (half) / zip_points (muni)
    muni_pts,    \* muni_pts (half) / city_points (muni)
    seen,        \* history: the records read so far from the file being processed
    row,         \* loop variable: the record being processed
    coords,      \* local: the coordinate the current record resolved to (None where
                 \* the code leaves the value of an earlier record, which it never reads)
    features,    \* features of the file being processed
    agg_sums,    \* half: sum per aggregate city
    agg_counts,  \* half: count per aggregate city
    matched,     \* muni: cities with a resolved record
    unmatched,   \* muni: non-empty cities of unresolved records
    agg,         \* muni: per-city bucket
    discarded,   \* history: the run has dropped a non-empty bucket map of an
                 \* earlier file
    out,         \* what the last json.dump calls wrote
    arg,         \* function-level harness: the argument
    ret          \* function-level harness: the results

vars == <<script, pc, zip_exists, geo_exists, nread, zip_map, muni_pts,
          seen, row, coords, features, agg_sums, agg_counts, matched,
          unmatched, agg, discarded, out, arg, ret>>

None == <<>>

\* Python truthiness of a str, list or None
Truthy(x) == x # None

----------------------------------------------------------------------------
(* str primitives *)

Digit == {"0", "1", "2", "3", "4", "5", "6", "7", "8", "9"}

Whitespace == {" ", "\t", "\n", "\r"}

RECURSIVE LStrip(_)
LStrip(s) ==
    IF s = <<>> THEN <<>>
    ELSE IF Head(s) \in Whitespace THEN LStrip(Tail(s)) ELSE s

RECURSIVE RStrip(_)
RStrip(s) ==
    IF s = <<>> THEN <<>>
    ELSE IF s[Len(s)] \in Whitespace THEN RStrip(SubSeq(s, 1, Len(s) - 1)) ELSE s

\* str.strip()
Strip(s) == RStrip(LStrip(s))

\* ''.join(ch for ch in s if ch.isdigit())
DigitsOf(s) == SelectSeq(s, LAMBDA ch : ch \in Digit)

\* '-' in s
HasHyphen(s) == \E i \in 1..Len(s) : s[i] = "-"

\* s.replace(c, '') for every one-character c in cs
Remove(s, cs) == SelectSeq(s, LAMBDA ch : ch \notin cs)

\* s[:n]
Take(s, n) == SubSeq(s, 1, IF n < Len(s) THEN n ELSE Len(s))

\* s[n:]
Drop(s, n) == SubSeq(s, n + 1, Len(s))

\* s.split('-')[0]
RECURSIVE BeforeHyphen(_)
BeforeHyphen(s) ==
    IF s = <<>> THEN <<>>
    ELSE IF Head(s) = "-" THEN <<>> ELSE <<Head(s)>> \o BeforeHyphen(Tail(s))

UpperCase == <<"A", "B", "C", "D", "E", "F", "G", "H", "I", "J", "K", "L", "M", "N", "O", "P", "Q", "R", "S", "T", "U", "V", "W", "X", "Y", "Z">>
LowerCase == <<"a", "b", "c", "d", "e", "f", "g", "h", "i", "j", "k", "l", "m", "n", "o", "p", "q", "r", "s", "t", "u", "v", "w", "x", "y", "z">>

\* c.lower() of the upper-case letters
LowerTab == [c \in {UpperCase[i] : i \in 1..26} |->
                LowerCase[CHOOSE i \in 1..26 : UpperCase[i] = c]]

\* c.upper() of the lower-case letters
UpperTab == [c \in {LowerCase[i] : i \in 1..26} |->
                UpperCase[CHOOSE i \in 1..26 : LowerCase[i] = c]]

LowerChar(c) == IF c \in DOMAIN LowerTab THEN LowerTab[c] ELSE c

UpperChar(c) == IF c \in DOMAIN UpperTab THEN UpperTab[c] ELSE c

\* str.lower()
Lower(s) == [i \in 1..Len(s) |-> LowerChar(s[i])]

IsLetter(c) == c \in DOMAIN LowerTab \/ c \in DOMAIN UpperTab

\* str.title(): a letter after a non-letter is upper-cased, any other lower-cased
Title(s) ==
    [i \in 1..Len(s) |->
        IF i = 1 \/ ~IsLetter(s[i - 1]) THEN UpperChar(s[i]) ELSE LowerChar(s[i])]

\* sub in s
Contains(s, sub) ==
    \E i \in 0..(Len(s) - Len(sub)) : SubSeq(s, i + 1, i + Len(sub)) = sub

\* s.startswith(p)
StartsWith(s, p) == Len(p) <= Len(s) /\ SubSeq(s, 1, Len(p)) = p

\* dict.get(k) on a dict held as a function
Get(m, k) == IF k \in DOMAIN m THEN m[k] ELSE None

\* m[k] = v
Put(m, k, v) == [x \in DOMAIN m \cup {k} |-> IF x = k THEN v ELSE m[x]]

EmptyMap == [x \in {} |-> None]

\* row.get(k) on a csv row; a key the header repeats keeps its last value
RowGet(r, k) ==
    IF \E i \in 1..Len(r) : r[i][1] = k
    THEN r[CHOOSE i \in 1..Len(r) : r[i][1] = k /\ \A j \in (i + 1)..Len(r) : r[j][1] # k][2]
    ELSE None

\* a or b
Or(a, b) == IF Truthy(a) THEN a ELSE b

----------------------------------------------------------------------------
(* Postal Token Normalizer *)

\* normalize_zip_token with the 9-digit test behind the 5-or-more test
normalize_zip_token_fiveFirst(s0) ==
    LET s == Strip(Or(s0, <<>>))
        digits == DigitsOf(s)
    IN  IF ~Truthy(s) THEN None
        ELSE IF HasHyphen(s) THEN s
        ELSE IF Len(digits) >= 5 THEN Take(digits, 5)
        ELSE IF Len(digits) = 9 THEN Take(digits, 5) \o <<"-">> \o Drop(digits, 5)
        ELSE None

normalize_zip_token(s0) ==
    LET s == Strip(Or(s0, <<>>))
        digits == DigitsOf(s)
    IN  IF ~Truthy(s) THEN None
        ELSE IF HasHyphen(s) THEN s
        ELSE IF Len(digits) = 9 THEN Take(digits, 5) \o <<"-">> \o Drop(digits, 5)
        ELSE IF Len(digits) >= 5 THEN Take(digits, 5)
        ELSE None

\* map-to-municipality.py normalizes in line; full_token of a record's ZIP text
full_token_of(zip_raw) ==
    IF ~Truthy(zip_raw) THEN None
    ELSE LET r == Strip(zip_raw)
             digits == DigitsOf(r)
         IN  IF HasHyphen(r) THEN r
             ELSE IF Len(digits) = 9 THEN Take(digits, 5) \o <<"-">> \o Drop(digits, 5)
             ELSE IF Len(digits) >= 5 THEN Take(digits, 5)
             ELSE None

----------------------------------------------------------------------------
(* float *)

\* units per 1.0; one unit is 5e-10
Scale == 2000000000

\* the tolerance 1e-9 of the display rule, in units
Tol == 2

Zero == <<0, 0>>

\* -a
Neg(a) == IF a[2] = 0 THEN <<0 - a[1], 0>> ELSE <<0 - a[1] - 1, Scale - a[2]>>

\* a + b
Add(a, b) ==
    IF a[2] >= Scale - b[2] /\ b[2] > 0
    THEN <<a[1] + b[1] + 1, a[2] - (Scale - b[2])>>
    ELSE <<a[1] + b[1], a[2] + b[2]>>

IsNegative(a) == a[1] < 0

\* abs(a)
Abs(a) == IF IsNegative(a) THEN Neg(a) ELSE a

\* int(a): truncation toward zero
Trunc(a) == IF a[1] >= 0 \/ a[2] = 0 THEN a[1] ELSE a[1] + 1

\* round(a): to nearest, ties to even
Round(a) ==
    LET half == Scale \div 2
    IN  IF a[2] < half THEN a[1]
        ELSE IF a[2] > half THEN a[1] + 1
        ELSE IF a[1] % 2 = 0 THEN a[1] ELSE a[1] + 1

\* abs(a - int(a)), in units
TruncDist(a) == Abs(Add(a, <<0 - Trunc(a), 0>>))[2]

\* a.is_integer()
is_integer(a) == a[2] = 0

DigitChars == <<"0", "1", "2", "3", "4", "5", "6", "7", "8", "9">>

DigitVal(c) == (CHOOSE i \in 1..10 : DigitChars[i] = c) - 1

RECURSIVE Pow10(_)
Pow10(n) == IF n = 0 THEN 1 ELSE 10 * Pow10(n - 1)

RECURSIVE DigitsToInt(_)
DigitsToInt(ds) ==
    IF ds = <<>> THEN 0
    ELSE 10 * DigitsToInt(SubSeq(ds, 1, Len(ds) - 1)) + DigitVal(ds[Len(ds)])

\* the fraction digits of a literal, in units: exact to the tenth place
RECURSIVE FracUnits(_, _)
FracUnits(ds, i) ==
    IF ds = <<>> \/ i > 10 THEN 0
    ELSE (IF i = 10 THEN DigitVal(Head(ds)) \div 5
          ELSE DigitVal(Head(ds)) * (Scale \div Pow10(i)))
         + FracUnits(Tail(ds), i + 1)

RECURSIVE BeforeDot(_)
BeforeDot(s) ==
    IF s = <<>> THEN <<>>
    ELSE IF Head(s) = "." THEN <<>> ELSE <<Head(s)>> \o BeforeDot(Tail(s))

\* float(s): the literals [sign] digits [. digits]; anything else raises.
\* Exponents, inf, nan and underscores are outside the modelled inputs.
IsFloatLiteral(s0) ==
    LET s == Strip(s0)
        body == IF s # <<>> /\ Head(s) \in {"+", "-"} THEN Tail(s) ELSE s
    IN  /\ \A i \in 1..Len(body) : body[i] \in Digit \cup {"."}
        /\ Cardinality({i \in 1..Len(body) : body[i] = "."}) <= 1
        /\ \E i \in 1..Len(body) : body[i] \in Digit

FloatOf(s0) ==
    LET s == Strip(s0)
        neg == Head(s) = "-"
        body == IF Head(s) \in {"+", "-"} THEN Tail(s) ELSE s
        ip == BeforeDot(body)
        fp == Drop(body, Len(ip) + 1)
        mag == <<DigitsToInt(ip), FracUnits(fp, 1)>>
    IN  IF neg THEN Neg(mag) ELSE mag

\* parse_amount of make_half_aggregated.py; map-to-municipality.py,
\* calculate_totals.py and analyze-data.py carry copies with the same result
parse_amount(s0) ==
    IF s0 = None THEN Zero
    ELSE LET s == Remove(Strip(s0), {"$", ","})
         IN  IF s = <<>> THEN Zero
             ELSE IF IsFloatLiteral(s) THEN FloatOf(s) ELSE Zero

RECURSIVE NatStr(_)
NatStr(n) ==
    IF n < 10 THEN <<DigitChars[n + 1]>>
    ELSE NatStr(n \div 10) \o <<DigitChars[(n % 10) + 1]>>

\* str(n) of an int
IntStr(n) == IF n < 0 THEN <<"-">> \o NatStr(0 - n) ELSE NatStr(n)

\* the ten decimal places of f units
RECURSIVE FracDigits(_, _)
FracDigits(f, n) ==
    IF n = 0 THEN <<>>
    ELSE LET q == Scale \div 10
         IN  <<DigitChars[(f \div q) + 1]>> \o FracDigits((f % q) * 10, n - 1)

RECURSIVE StripZerosRight(_)
StripZerosRight(s) ==
    IF s # <<>> /\ s[Len(s)] = "0" THEN StripZerosRight(SubSeq(s, 1, Len(s) - 1)) ELSE s

RECURSIVE StripZerosLeft(_)
StripZerosLeft(s) ==
    IF s # <<>> /\ Head(s) = "0" THEN StripZerosLeft(Tail(s)) ELSE s

\* str(a) of a float: repr, shortest digits; exponent form below 1e-4
FloatStr(a) ==
    LET sign == IF IsNegative(a) THEN <<"-">> ELSE <<>>
        m == Abs(a)
        fd == StripZerosRight(FracDigits(m[2], 10))
        sd == StripZerosLeft(fd)
        e == Len(fd) - Len(sd) + 1
    IN  IF m[2] = 0 THEN sign \o NatStr(m[1]) \o <<".", "0">>
        ELSE IF m[1] = 0 /\ e > 4
        THEN sign \o <<Head(sd)>>
                  \o (IF Len(sd) > 1 THEN <<".">> \o Tail(sd) ELSE <<>>)
                  \o <<"e", "-">> \o (IF e < 10 THEN <<"0">> ELSE <<>>) \o NatStr(e)
        ELSE sign \o NatStr(m[1]) \o <<".">> \o fd

\* f"{a:.2f}": two places, ties to even on the decimal grid
Fixed2(a) ==
    LET sign == IF IsNegative(a) THEN <<"-">> ELSE <<>>
        m == Abs(a)
        cu == Scale \div 100
        c == m[2] \div cu
        r == m[2] % cu
        up == r > cu \div 2 \/ (r = cu \div 2 /\ c % 2 = 1)
        c2 == IF up THEN c + 1 ELSE c
        w == IF c2 = 100 THEN m[1] + 1 ELSE m[1]
        cc == c2 % 100
    IN  sign \o NatStr(w) \o <<".">> \o <<DigitChars[(cc \div 10) + 1], DigitChars[(cc % 10) + 1]>>

----------------------------------------------------------------------------
(* Amount display formatting, one per emission path *)

\* make_half_aggregated.py: 'AMNT' of a synthesized feature
FormatHalf(total) ==
    IF TruncDist(total) < Tol THEN IntStr(Round(total)) ELSE FloatStr(total)

\* map-to-municipality.py: amt_str of an aggregated feature
FormatMuni(total) ==
    IF TruncDist(total) < Tol THEN IntStr(Trunc(total)) ELSE FloatStr(total)

\* analyze-data.py: total_str of the totals report
FormatReport(total) ==
    IF is_integer(total) THEN <<"$">> \o IntStr(Trunc(total))
    ELSE <<"$">> \o Fixed2(total)

----------------------------------------------------------------------------
(* Geocode Index: the reference ZIP table *)

\* row.keys(), as a set
Keys(r) == {r[i][1] : i \in 1..Len(r)}

\* first key of the row, in header order, that is in K; None without one
FirstKey(r, K) ==
    IF \E i \in 1..Len(r) : r[i][1] \in K
    THEN r[CHOOSE i \in 1..Len(r) : r[i][1] \in K /\ \A j \in 1..(i - 1) : r[j][1] \notin K][1]
    ELSE None

\* last key of the row, in header order, that is in K; None without one
LastKey(r, K) ==
    IF \E i \in 1..Len(r) : r[i][1] \in K
    THEN r[CHOOSE i \in 1..Len(r) : r[i][1] \in K /\ \A j \in (i + 1)..Len(r) : r[j][1] \notin K][1]
    ELSE None

\* keys.get(name) of keys = {k.lower(): k for k in row.keys()}
LowerKey(r, name) == LastKey(r, {k \in Keys(r) : Lower(k) = name})

\* [lon, lat] of a row, None when float() raises on either text
RowLonLat(r, lat_k, lon_k) ==
    LET lat == RowGet(r, lat_k)
        lon == RowGet(r, lon_k)
    IN  IF lat # None /\ lon # None /\ IsFloatLiteral(lat) /\ IsFloatLiteral(lon)
        THEN <<FloatOf(lon), FloatOf(lat)>>
        ELSE None

\* mapping[full] = c, then the 5-digit parent only if absent
InsertToken(mapping, full, c) ==
    LET m1 == Put(mapping, full, c)
        five == BeforeHyphen(full)
    IN  IF five \notin DOMAIN m1 THEN Put(m1, five, c) ELSE m1

\* one iteration of the row loop of load_zip_map (make_half_aggregated.py)
LoadZipRowHalf(mapping, r) ==
    LET zip_e == Or(LowerKey(r, <<"z", "i", "p">>), Or(LowerKey(r, <<"p", "o", "s", "t", "a", "l", " ", "c", "o", "d", "e">>),
                 Or(LowerKey(r, <<"p", "o", "s", "t", "a", "l", "_", "c", "o", "d", "e">>), LowerKey(r, <<"p", "o", "s", "t", "a", "l", "c", "o", "d", "e">>))))
        lat_e == Or(LowerKey(r, <<"l", "a", "t", "i", "t", "u", "d", "e">>), LowerKey(r, <<"l", "a", "t">>))
        lon_e == Or(LowerKey(r, <<"l", "o", "n", "g", "i", "t", "u", "d", "e">>), Or(LowerKey(r, <<"l", "o", "n">>), LowerKey(r, <<"l", "n", "g">>)))
        scan == ~Truthy(zip_e) \/ ~Truthy(lat_e) \/ ~Truthy(lon_e)
        zip_k == IF scan /\ ~Truthy(zip_e)
                 THEN FirstKey(r, {k \in Keys(r) : Contains(Lower(k), <<"z", "i", "p">>)}) ELSE zip_e
        lat_k == IF scan /\ ~Truthy(lat_e)
                 THEN FirstKey(r, {k \in Keys(r) : Contains(Lower(k), <<"l", "a", "t">>)}) ELSE lat_e
        lon_k == IF scan /\ ~Truthy(lon_e)
                 THEN FirstKey(r, {k \in Keys(r) : Contains(Lower(k), <<"l", "o", "n">>)
                                                     \/ Contains(Lower(k), <<"l", "n", "g">>)})
                 ELSE lon_e
        raw == Strip(Or(RowGet(r, zip_k), <<>>))
        digits == DigitsOf(raw)
        full == IF HasHyphen(raw) THEN raw
                ELSE IF Len(digits) = 9 THEN Take(digits, 5) \o <<"-">> \o Drop(digits, 5)
                ELSE Take(digits, 5)
        c == RowLonLat(r, lat_k, lon_k)
    IN  IF ~Truthy(zip_k) \/ ~Truthy(lat_k) \/ ~Truthy(lon_k) THEN mapping
        ELSE IF ~Truthy(raw) THEN mapping
        ELSE IF c = None THEN mapping
        ELSE InsertToken(mapping, full, c)

\* one iteration of the row loop of load_zip_codes (map-to-municipality.py)
LoadZipRowMuni(zip_points, r) ==
    LET IsZip(k) == Lower(k) = <<"z", "i", "p">> \/ StartsWith(Lower(k), <<"z", "i", "p">>)
        IsLat(k) == ~IsZip(k) /\ Lower(k) \in {<<"l", "a", "t">>, <<"l", "a", "t", "i", "t", "u", "d", "e">>}
        IsLon(k) == ~IsZip(k) /\ ~IsLat(k)
                    /\ Lower(k) \in {<<"l", "o", "n">>, <<"l", "n", "g">>, <<"l", "o", "n", "g">>, <<"l", "o", "n", "g", "i", "t", "u", "d", "e">>}
        zip_1 == LastKey(r, {k \in Keys(r) : IsZip(k)})
        lat_1 == LastKey(r, {k \in Keys(r) : IsLat(k)})
        lon_1 == LastKey(r, {k \in Keys(r) : IsLon(k)})
        zip_k == IF zip_1 = None
                 THEN LastKey(r, {k \in Keys(r) : Contains(Lower(k), <<"z", "i", "p">>)}) ELSE zip_1
        scan == lat_1 = None \/ lon_1 = None
        lat_k == IF scan /\ lat_1 = None
                 THEN FirstKey(r, {k \in Keys(r) : Contains(Lower(k), <<"l", "a", "t">>)}) ELSE lat_1
        lon_k == IF scan /\ lon_1 = None
                 THEN FirstKey(r, {k \in Keys(r) : Contains(Lower(k), <<"l", "o", "n">>)
                                                     \/ Contains(Lower(k), <<"l", "n", "g">>)
                                                     \/ Contains(Lower(k), <<"l", "o", "n", "g">>)})
                 ELSE lon_1
        raw_zip == Strip(Or(RowGet(r, zip_k), <<>>))
        zip_digits == DigitsOf(raw_zip)
        full == IF HasHyphen(raw_zip) THEN raw_zip
                ELSE IF Len(zip_digits) = 9
                THEN Take(zip_digits, 5) \o <<"-">> \o Drop(zip_digits, 5)
                ELSE IF Len(zip_digits) >= 5 THEN Take(zip_digits, 5)
                ELSE None
        c == RowLonLat(r, lat_k, lon_k)
    IN  IF ~Truthy(zip_k) \/ ~Truthy(lat_k) \/ ~Truthy(lon_k) THEN zip_points
        ELSE IF raw_zip = <<>> THEN zip_points
        ELSE IF full = None THEN zip_points
        ELSE IF c = None THEN zip_points
        ELSE InsertToken(zip_points, full, c)

----------------------------------------------------------------------------
(* Geocode Index: the place-name table *)

\* a float given in units of 1e-4
FromE4(k) == <<k \div 10000, (k % 10000) * (Scale \div 10000)>>

\* [lon, lat], in units of 1e-4 degree
Pt(lon, lat) == <<FromE4(lon), FromE4(lat)>>

\* coordinates[0][0] of a Polygon, coordinates[0][0][0] of a MultiPolygon
FirstVertex(feat) ==
    IF feat.gtype = "Polygon" THEN feat.coordinates[1][1]
    ELSE IF feat.gtype = "MultiPolygon" THEN feat.coordinates[1][1][1]
    ELSE None

\* one iteration of the feature loop of load_municipal_centroids
LoadFeatureHalf(pts, feat) ==
    IF ~Truthy(feat.NAME) THEN pts
    ELSE LET key == Lower(Strip(feat.NAME))
             c == FirstVertex(feat)
         IN  IF Truthy(c) /\ Len(c) = 2 THEN Put(pts, key, c) ELSE pts

\* feat['geometry']['type'] of load_municipalities raises on a null geometry
FeatureRaisesMuni(feat) == Truthy(feat.NAME) /\ feat.gtype = "null"

\* one iteration of the feature loop of load_municipalities
LoadFeatureMuni(city_points, feat) ==
    IF ~Truthy(feat.NAME) THEN city_points
    ELSE LET name == Lower(Remove(Strip(feat.NAME), {"\r", "\n"}))
             c == FirstVertex(feat)
         IN  IF Truthy(c) /\ Len(c) = 2
             THEN LET p1 == Put(city_points, name, c)
                  IN  IF name = <<"b", "u", "t", "t", "e", "-", "s", "i", "l", "v", "e", "r", " ", "b", "o", "w">> THEN Put(p1, <<"b", "u", "t", "t", "e">>, c)
                      ELSE IF name = <<"a", "n", "a", "c", "o", "n", "d", "a", "-", "d", "e", "e", "r", " ", "l", "o", "d", "g", "e", " ", "c", "o", "u", "n", "t", "y">> THEN Put(p1, <<"a", "n", "a", "c", "o", "n", "d", "a">>, c)
                      ELSE p1
             ELSE city_points

ManualButte == Pt(-1125393, 459987)
ManualAnaconda == Pt(-1129438, 461243)

\* the manual coordinates main() of map-to-municipality.py sets after loading
ApplyOverrides(city_points) ==
    Put(Put(city_points, <<"b", "u", "t", "t", "e">>, ManualButte), <<"a", "n", "a", "c", "o", "n", "d", "a">>, ManualAnaconda)

----------------------------------------------------------------------------
(* Resolution & Aggregation Engine *)

AGG_CITIES == {<<"b", "o", "z", "e", "m", "a", "n">>, <<"m", "i", "s", "s", "o", "u", "l", "a">>, <<"l", "i", "v", "i", "n", "g", "s", "t", "o", "n">>}

FIXED_COORDS ==
    [c \in AGG_CITIES |->
        IF c = <<"b", "o", "z", "e", "m", "a", "n">> THEN Pt(-1110640, 456903)
        ELSE IF c = <<"m", "i", "s", "s", "o", "u", "l", "a">> THEN Pt(-1139957, 468729)
        ELSE Pt(-1105600, 456556)]

\* (row.get('CITY') or row.get('City') or '')
RowCityRaw(r) == Or(RowGet(r, <<"C", "I", "T", "Y">>), Or(RowGet(r, <<"C", "i", "t", "y">>), <<>>))

\* city_raw.strip().lower()
RowCity(r) == Lower(Strip(RowCityRaw(r)))

\* (row.get('ZIP') or row.get('Zip') or row.get('zip') or '')
RowZipRaw(r) == Or(RowGet(r, <<"Z", "I", "P">>), Or(RowGet(r, <<"Z", "i", "p">>), Or(RowGet(r, <<"z", "i", "p">>), <<>>)))

\* parse_amount(row.get('AMNT') or row.get('AMOUNT') or '')
RowAmountHalf(r) == parse_amount(Or(RowGet(r, <<"A", "M", "N", "T">>), Or(RowGet(r, <<"A", "M", "O", "U", "N", "T">>), <<>>)))

\* get_amount_from_row of map-to-municipality.py
get_amount_from_row(r) ==
    LET k1 == FirstKey(r, {k \in Keys(r) : Truthy(k) /\ Lower(k) \in {<<"a", "m", "n", "t">>, <<"a", "m", "o", "u", "n", "t">>}})
        k2 == FirstKey(r, {k \in Keys(r) : Truthy(k) /\ Contains(Lower(k), <<"a", "m">>)})
    IN  IF k1 # None THEN parse_amount(RowGet(r, k1))
        ELSE IF k2 # None THEN parse_amount(RowGet(r, k2))
        ELSE Zero

Feature(c, props) ==
    [type |-> "Feature",
     geometry |-> [type |-> "Point", coordinates |-> c],
     properties |-> props]

\* ResolveHalf with the two tables consulted in the opposite order
ResolveHalf_placeFirst(zmap, mpts, r) ==
    LET zip_tok == normalize_zip_token(RowZipRaw(r))
        c1 == Get(mpts, RowCity(r))
    IN  IF ~Truthy(c1) THEN (IF Truthy(zip_tok) THEN Get(zmap, zip_tok) ELSE None) ELSE c1

\* the coordinate a non-aggregated record resolves to in make_half_aggregated.py
ResolveHalf(zmap, mpts, r) ==
    LET zip_tok == normalize_zip_token(RowZipRaw(r))
        c1 == IF Truthy(zip_tok) THEN Get(zmap, zip_tok) ELSE None
    IN  IF ~Truthy(c1) THEN Get(mpts, RowCity(r)) ELSE c1

\* the coordinate a record resolves to in map-to-municipality.py
ResolveMuni(zpts, cpts, r) ==
    LET full_token == full_token_of(RowZipRaw(r))
        zip_coords == IF Truthy(full_token)
                      THEN Or(Get(zpts, full_token), Get(zpts, BeforeHyphen(full_token)))
                      ELSE None
    IN  IF Truthy(zip_coords) THEN zip_coords ELSE Get(cpts, RowCity(r))

\* AggFeaturesHalf without the test that skips a zero total
RECURSIVE AggFeaturesHalf_noZeroSkip(_, _, _)
AggFeaturesHalf_noZeroSkip(order, sums, mpts) ==
    IF order = <<>> THEN <<>>
    ELSE LET c == Head(order)
             total == sums[c]
             c0 == Get(FIXED_COORDS, c)
             c1 == IF ~Truthy(c0) THEN Get(mpts, c) ELSE c0
             props == << <<<<"N", "A", "M", "E", " ", "O", "F", " ", "C", "O", "N", "T", "R", "I", "B", "U", "T", "O", "R">>, Title(c)>>,
                         <<<<"A", "M", "N", "T">>, FormatHalf(total)>>,
                         <<<<"Z", "I", "P">>, <<>> >>, <<<<"E", "M", "P", "L", "O", "Y", "E", "R">>, <<>> >>,
                         <<<<"A", "D", "D", "R", "E", "S", "S">>, <<>> >>, <<<<"P", "H", "O", "N", "E">>, <<>> >> >>
             rest == AggFeaturesHalf_noZeroSkip(Tail(order), sums, mpts)
         IN  IF ~Truthy(c1) THEN rest
             ELSE <<Feature(c1, props)>> \o rest

\* the synthesized features of make_half_aggregated.py, cities visited in order
RECURSIVE AggFeaturesHalf(_, _, _)
AggFeaturesHalf(order, sums, mpts) ==
    IF order = <<>> THEN <<>>
    ELSE LET c == Head(order)
             total == sums[c]
             c0 == Get(FIXED_COORDS, c)
             c1 == IF ~Truthy(c0) THEN Get(mpts, c) ELSE c0
             props == << <<<<"N", "A", "M", "E", " ", "O", "F", " ", "C", "O", "N", "T", "R", "I", "B", "U", "T", "O", "R">>, Title(c)>>,
                         <<<<"A", "M", "N", "T">>, FormatHalf(total)>>,
                         <<<<"Z", "I", "P">>, <<>> >>, <<<<"E", "M", "P", "L", "O", "Y", "E", "R">>, <<>> >>,
                         <<<<"A", "D", "D", "R", "E", "S", "S">>, <<>> >>, <<<<"P", "H", "O", "N", "E">>, <<>> >> >>
             rest == AggFeaturesHalf(Tail(order), sums, mpts)
         IN  IF total = Zero THEN rest
             ELSE IF ~Truthy(c1) THEN rest
             ELSE <<Feature(c1, props)>> \o rest

\* the aggregated features of map-to-municipality.py, buckets in insertion order
RECURSIVE AggFeaturesMuni(_)
AggFeaturesMuni(buckets) ==
    IF buckets = <<>> THEN <<>>
    ELSE LET info == Head(buckets)
             props == << <<<<"C", "I", "T", "Y">>, info.city>>, <<<<"S", "T", "A", "T", "E">>, info.state>>,
                         <<<<"A", "M", "N", "T">>, FormatMuni(info.sum)>> >>
             rest == AggFeaturesMuni(Tail(buckets))
         IN  IF ~Truthy(info.coords) THEN rest
             ELSE <<Feature(info.coords, props)>> \o rest

\* agg[city]['sum'] += amt, after creating the bucket of a city not yet in agg
AddToBucket(buckets, city, r, c, amt) ==
    LET b1 == IF \E i \in 1..Len(buckets) : buckets[i].key = city THEN buckets
              ELSE Append(buckets,
                     [key |-> city,
                      city |-> Strip(RowCityRaw(r)),
                      state |-> Strip(Or(RowGet(r, <<"S", "T", "A", "T", "E">>), Or(RowGet(r, <<"S", "t", "a", "t", "e">>), <<>>))),
                      sum |-> Zero,
                      coords |-> c])
    IN  [i \in 1..Len(b1) |->
            IF b1[i].key = city THEN [b1[i] EXCEPT !.sum = Add(@, amt)] ELSE b1[i]]

\* the orders in which "for c in AGG_CITIES" can visit a set
Orders(S) ==
    {o \in [1..Cardinality(S) -> S] : \A i, j \in 1..Cardinality(S) : o[i] = o[j] => i = j}

----------------------------------------------------------------------------
(* Bounds and input domains *)

MaxZipRows == 2
MaxGeoFeatures == 2
MaxRecords == 3

ZipRow(header, zip, lat, lon) ==
    << <<header[1], zip>>, <<header[2], lat>>, <<header[3], lon>> >>

\* rows of the reference ZIP csv
ZipRows ==
    {ZipRow(<<<<"Z", "I", "P">>, <<"L", "A", "T">>, <<"L", "N", "G">>>>, <<"5", "9", "0", "4", "4">>, <<"4", "5", ".", "6">>, <<"-", "1", "1", "0", ".", "5">>),
     ZipRow(<<<<"Z", "I", "P">>, <<"L", "A", "T">>, <<"L", "N", "G">>>>, <<"5", "9", "0", "4", "4">>, <<"4", "6", ".", "0">>, <<"-", "1", "1", "2", ".", "2", "5">>),
     ZipRow(<<<<"Z", "I", "P">>, <<"L", "A", "T">>, <<"L", "N", "G">>>>, <<"5", "9", "0", "4", "4", "-", "9", "3", "3", "8">>, <<"4", "6", ".", "0">>, <<"-", "1", "1", "2", ".", "2", "5">>),
     ZipRow(<<<<"z", "i", "p", "c", "o", "d", "e">>, <<"L", "a", "t", "i", "t", "u", "d", "e">>, <<"L", "o", "n", "g">>>>, <<"5", "9", "0", "4", "4", "9", "3", "3", "8", " ">>, <<"4", "6", ".", "0">>, <<"-", "1", "1", "2", ".", "2", "5">>),
          ZipRow(<<<<"Z", "I", "P">>, <<"L", "A", "T">>, <<"L", "N", "G">>>>, <<"5", "9", "0", "4", "4">>, <<"n", "/", "a">>, <<"-", "1", "1", "0", ".", "5">>),
          << <<<<"Z", "I", "P">>, <<"5", "9", "0", "4", "4">>>>, <<<<"L", "A", "T">>, <<"4", "6", ".", "0">>>> >>}

GeoFeature(name, gtype, coordinates) ==
    [NAME |-> name, gtype |-> gtype, coordinates |-> coordinates]

\* features of the municipalities geojson
GeoFeatures ==
    {GeoFeature(<<" ", "B", "u", "t", "t", "e">>, "Polygon", << <<Pt(-1125000, 460000), Pt(-1125100, 460100)>> >>),
     GeoFeature(<<"B", "u", "t", "t", "e", "-", "S", "i", "l", "v", "e", "r", " ", "B", "o", "w">>, "MultiPolygon",
                << << <<Pt(-1126000, 459000), Pt(-1126100, 459100)>> >> >>),
     GeoFeature(<<>>, "Polygon", << <<Pt(-1100000, 450000), Pt(-1100100, 450100)>> >>),
     GeoFeature(<<"A", "n", "a", "c", "o", "n", "d", "a">>, "Point", Pt(-1129000, 461000)),
     GeoFeature(<<"M", "i", "s", "s", "o", "u", "l", "a">>, "null", <<>>)}

DonationRow(city, zip, amnt) ==
    << <<<<"C", "I", "T", "Y">>, city>>, <<<<"S", "T", "A", "T", "E">>, <<"M", "T">>>>, <<<<"Z", "I", "P">>, zip>>, <<<<"A", "M", "N", "T">>, amnt>> >>

\* records of a donation csv
Records ==
    {DonationRow(<<"B", "o", "z", "e", "m", "a", "n">>, <<>>, <<"1", "0">>),
     DonationRow(<<" ", "b", "o", "z", "e", "m", "a", "n", " ">>, <<"5", "9", "0", "4", "4">>, <<"$", "2", "0">>),
     DonationRow(<<"B", "O", "Z", "E", "M", "A", "N">>, <<"5", "9", "0", "4", "4", "-", "9", "3", "3", "8">>, <<"3", "0">>),
     DonationRow(<<"M", "i", "s", "s", "o", "u", "l", "a">>, <<>>, <<"-", "1", "0">>),
     DonationRow(<<"M", "i", "s", "s", "o", "u", "l", "a">>, <<"5", "9", "0", "4", "4", "-", "9", "3", "3", "8">>, <<"1", "0">>),
     << <<<<"C", "i", "t", "y">>, <<"B", "u", "t", "t", "e">>>>, <<<<"S", "t", "a", "t", "e">>, <<"M", "T">>>>, <<<<"z", "i", "p">>, <<"5", "9", "0", "4", "4", "-", "9", "3", "3", "8">>>>,
        <<<<"A", "m", "o", "u", "n", "t">>, <<"1", ",", "0", "5", "0", ".", "2", "5">>>> >>,
     DonationRow(<<>>, <<"5", "9", "0", "4", "4">>, <<>>)}

----------------------------------------------------------------------------
(* The two pipeline scripts *)

NoOutput == [written |-> FALSE, geojson |-> <<>>, agg_geo |-> <<>>]

ZeroSums == [c \in AGG_CITIES |-> Zero]
ZeroCounts == [c \in AGG_CITIES |-> 0]

Idle ==
    /\ nread = 0
    /\ zip_map = EmptyMap
    /\ muni_pts = EmptyMap
    /\ seen = <<>>
    /\ row = None
    /\ coords = None
    /\ features = <<>>
    /\ agg_sums = ZeroSums
    /\ agg_counts = ZeroCounts
    /\ matched = {}
    /\ unmatched = {}
    /\ agg = <<>>
    /\ discarded = FALSE
    /\ out = NoOutput

Init ==
    /\ script \in {"half", "muni"}
    /\ pc = IF script = "half" THEN "zip" ELSE "geo"
    /\ zip_exists \in BOOLEAN
    /\ geo_exists \in BOOLEAN
    /\ Idle
    /\ arg = None
    /\ ret = None

AfterZip == IF script = "half" THEN "geo" ELSE "files"
AfterGeo == IF script = "half" THEN "input" ELSE "zip"

\* load_zip_map / load_zip_codes: no csv found
ZipMissing ==
    /\ pc = "zip" /\ ~zip_exists
    /\ pc' = AfterZip
    /\ zip_map' = EmptyMap
    /\ muni_pts' = IF script = "muni" THEN ApplyOverrides(muni_pts) ELSE muni_pts
    /\ UNCHANGED <<script, discarded, zip_exists, geo_exists, nread, seen, row, coords,
                   features, agg_sums, agg_counts, matched, unmatched, agg, out, arg, ret>>

\* load_zip_map / load_zip_codes: one row of the csv
ZipRowRead(r) ==
    /\ pc = "zip" /\ zip_exists /\ nread < MaxZipRows
    /\ nread' = nread + 1
    /\ zip_map' = IF script = "half" THEN LoadZipRowHalf(zip_map, r)
                  ELSE LoadZipRowMuni(zip_map, r)
    /\ UNCHANGED <<script, discarded, pc, zip_exists, geo_exists, muni_pts, seen, row, coords,
                   features, agg_sums, agg_counts, matched, unmatched, agg, out, arg, ret>>

\* load_zip_map / load_zip_codes: end of the csv; in map-to-municipality.py
\* main() then sets the manual coordinates
ZipDone ==
    /\ pc = "zip" /\ zip_exists
    /\ pc' = AfterZip
    /\ nread' = 0
    /\ muni_pts' = IF script = "muni" THEN ApplyOverrides(muni_pts) ELSE muni_pts
    /\ UNCHANGED <<script, discarded, zip_exists, geo_exists, zip_map, seen, row, coords,
                   features, agg_sums, agg_counts, matched, unmatched, agg, out, arg, ret>>

\* load_municipal_centroids returns {} without the geojson;
\* load_municipalities opens it unconditionally
GeoMissing ==
    /\ pc = "geo" /\ ~geo_exists
    /\ pc' = IF script = "half" THEN AfterGeo ELSE "FileNotFoundError"
    /\ UNCHANGED <<script, discarded, zip_exists, geo_exists, nread, zip_map, muni_pts, seen, row, coords, features, agg_sums, agg_counts, matched, unmatched, agg,
                   out, arg, ret>>

\* load_municipal_centroids / load_municipalities: one feature
GeoFeatureRead(feat) ==
    /\ pc = "geo" /\ geo_exists /\ nread < MaxGeoFeatures
    /\ IF script = "muni" /\ FeatureRaisesMuni(feat)
       THEN pc' = "TypeError" /\ UNCHANGED <<nread, muni_pts>>
       ELSE /\ pc' = pc
            /\ nread' = nread + 1
            /\ muni_pts' = IF script = "half" THEN LoadFeatureHalf(muni_pts, feat)
                           ELSE LoadFeatureMuni(muni_pts, feat)
    /\ UNCHANGED <<script, discarded, zip_exists, geo_exists, zip_map, seen, row, coords,
                   features, agg_sums, agg_counts, matched, unmatched, agg, out, arg, ret>>

\* load_municipal_centroids / load_municipalities: end of the features
GeoDone ==
    /\ pc = "geo" /\ geo_exists
    /\ pc' = AfterGeo
    /\ nread' = 0
    /\ UNCHANGED <<script, discarded, zip_exists, geo_exists, zip_map, muni_pts, seen, row,
                   coords, features, agg_sums, agg_counts, matched, unmatched, agg, out,
                   arg, ret>>

\* make_half_aggregated.py main(): INPUT_CSV.exists() is false
InputMissing ==
    /\ script = "half" /\ pc = "input"
    /\ pc' = "done"
    /\ UNCHANGED <<script, discarded, zip_exists, geo_exists, nread, zip_map, muni_pts, seen, row, coords, features, agg_sums, agg_counts, matched, unmatched, agg,
                   out, arg, ret>>

\* make_half_aggregated.py main(): INPUT_CSV.exists() is true; the accumulators
\* are set up and the csv is opened
OpenInput ==
    /\ script = "half" /\ pc = "input"
    /\ pc' = "rows"
    /\ agg_sums' = ZeroSums
    /\ agg_counts' = ZeroCounts
    /\ features' = <<>>
    /\ seen' = <<>>
    /\ UNCHANGED <<script, discarded, zip_exists, geo_exists, nread, zip_map, muni_pts, row, coords,
                   matched, unmatched, agg, out, arg, ret>>

\* ProcessRowHalf without the "continue" that ends an aggregated record
ProcessRowHalf_noContinue(r) ==
    /\ script = "half" /\ pc = "rows" /\ nread < MaxRecords
    /\ nread' = nread + 1
    /\ seen' = Append(seen, r)
    /\ row' = r
    /\ LET city == RowCity(r)
           amt == RowAmountHalf(r)
           c == ResolveHalf(zip_map, muni_pts, r)
       IN  /\ IF city \in AGG_CITIES
              THEN /\ agg_sums' = [agg_sums EXCEPT ![city] = Add(@, amt)]
                   /\ agg_counts' = [agg_counts EXCEPT ![city] = @ + 1]
              ELSE UNCHANGED <<agg_sums, agg_counts>>
           /\ coords' = c
           /\ features' = IF ~Truthy(c) THEN features
                          ELSE Append(features, Feature(c, r))
    /\ UNCHANGED <<script, discarded, pc, zip_exists, geo_exists, zip_map, muni_pts, matched, unmatched, agg, out, arg, ret>>

\* make_half_aggregated.py main(): one record
ProcessRowHalf(r) ==
    /\ script = "half" /\ pc = "rows" /\ nread < MaxRecords
    /\ nread' = nread + 1
    /\ seen' = Append(seen, r)
    /\ row' = r
    /\ LET city == RowCity(r)
           amt == RowAmountHalf(r)
           c == ResolveHalf(zip_map, muni_pts, r)
       IN  IF city \in AGG_CITIES
           THEN /\ agg_sums' = [agg_sums EXCEPT ![city] = Add(@, amt)]
                /\ agg_counts' = [agg_counts EXCEPT ![city] = @ + 1]
                /\ coords' = None
                /\ UNCHANGED features
           ELSE /\ coords' = c
                /\ features' = IF ~Truthy(c) THEN features
                               ELSE Append(features, Feature(c, r))
                /\ UNCHANGED <<agg_sums, agg_counts>>
    /\ UNCHANGED <<script, discarded, pc, zip_exists, geo_exists, zip_map, muni_pts, matched, unmatched, agg, out, arg, ret>>

\* make_half_aggregated.py main(): the synthesized features and json.dump
EmitHalf ==
    /\ script = "half" /\ pc = "rows"
    /\ \E order \in Orders(AGG_CITIES) :
          LET fs == features \o AggFeaturesHalf(order, agg_sums, muni_pts)
          IN  /\ features' = fs
              /\ out' = [written |-> TRUE, geojson |-> fs, agg_geo |-> <<>>]
    /\ pc' = "done"
    /\ nread' = 0
    /\ UNCHANGED <<script, discarded, zip_exists, geo_exists, zip_map, muni_pts, seen, row,
                   coords, agg_sums, agg_counts, matched, unmatched, agg, arg, ret>>

\* StartFile without the fresh bucket map: agg lives on from file to file
StartFile_keepBuckets ==
    /\ script = "muni" /\ pc = "files"
    /\ pc' = "rows"
    /\ features' = <<>>
    /\ matched' = {}
    /\ unmatched' = {}
    /\ agg' = agg
    /\ discarded' = (discarded \/ agg # <<>>)
    /\ out' = NoOutput
    /\ seen' = <<>>
    /\ row' = None
    /\ coords' = None
    /\ UNCHANGED <<script, zip_exists, geo_exists, nread, zip_map, muni_pts,
                   agg_sums, agg_counts, arg, ret>>

\* map-to-municipality.py main(): the listing yields one more '-mt.csv' file
StartFile ==
    /\ script = "muni" /\ pc = "files"
    /\ pc' = "rows"
    /\ features' = <<>>
    /\ matched' = {}
    /\ unmatched' = {}
    /\ agg' = <<>>
    /\ discarded' = (discarded \/ agg # <<>>)
    /\ out' = NoOutput
    /\ seen' = <<>>
    /\ row' = None
    /\ coords' = None
    /\ UNCHANGED <<script, zip_exists, geo_exists, nread, zip_map, muni_pts,
                   agg_sums, agg_counts, arg, ret>>

\* map-to-municipality.py main(): one record
ProcessRowMuni(r) ==
    /\ script = "muni" /\ pc = "rows" /\ nread < MaxRecords
    /\ nread' = nread + 1
    /\ seen' = Append(seen, r)
    /\ row' = r
    /\ LET city == RowCity(r)
           c == ResolveMuni(zip_map, muni_pts, r)
       IN  /\ coords' = c
           /\ IF Truthy(c)
              THEN /\ matched' = matched \cup {city}
                   /\ features' = Append(features, Feature(c, r))
                   /\ agg' = AddToBucket(agg, city, r, c, get_amount_from_row(r))
                   /\ UNCHANGED unmatched
              ELSE /\ unmatched' = IF Truthy(city) THEN unmatched \cup {city} ELSE unmatched
                   /\ UNCHANGED <<matched, features, agg>>
    /\ UNCHANGED <<script, discarded, pc, zip_exists, geo_exists, zip_map, muni_pts, agg_sums, agg_counts, out, arg, ret>>

\* map-to-municipality.py main(): both collections of the file are written
EmitMuni ==
    /\ script = "muni" /\ pc = "rows"
    /\ out' = [written |-> TRUE, geojson |-> features, agg_geo |-> AggFeaturesMuni(agg)]
    /\ pc' = "files"
    /\ nread' = 0
    /\ UNCHANGED <<script, discarded, zip_exists, geo_exists, zip_map, muni_pts, seen, row,
                   coords, features, agg_sums, agg_counts, matched, unmatched, agg, arg, ret>>

\* map-to-municipality.py main(): the listing is exhausted
Finish ==
    /\ script = "muni" /\ pc = "files"
    /\ pc' = "done"
    /\ UNCHANGED <<script, discarded, zip_exists, geo_exists, nread, zip_map, muni_pts, seen, row, coords, features, agg_sums, agg_counts, matched, unmatched, agg,
                   out, arg, ret>>

\* the records the reader can return next: the rows of a donation csv are
\* pairwise different
Unread == {r \in Records : \A i \in 1..Len(seen) : seen[i] # r}

Next ==
    \/ ZipMissing
    \/ \E r \in ZipRows : ZipRowRead(r)
    \/ ZipDone
    \/ GeoMissing
    \/ \E feat \in GeoFeatures : GeoFeatureRead(feat)
    \/ GeoDone
    \/ InputMissing
    \/ OpenInput
    \/ \E r \in Unread : ProcessRowHalf(r)
    \/ EmitHalf
    \/ StartFile
    \/ \E r \in Unread : ProcessRowMuni(r)
    \/ EmitMuni
    \/ Finish

Spec == Init /\ [][Next]_vars

----------------------------------------------------------------------------
(* Function-level harness: the Postal Token Normalizer on free-form text *)

MaxDigits == 10
MaxTail == 4

HeadDigits == <<"5", "9", "0", "4", "4", "9", "3", "3", "8", "1", "2">>
TailDigits == <<"9", "3", "3", "8", "1">>

\* the first n digits of a pool, repeating it where n exceeds its length
DigitRun(pool, n) == [i \in 1..n |-> pool[((i - 1) % Len(pool)) + 1]]

\* [space] digits [separator] digits [space], and the text "abc"
ZipTexts ==
    {lead \o DigitRun(HeadDigits, a) \o sep \o DigitRun(TailDigits, b) \o trail :
        lead \in {<<>>, <<" ", " ">>}, a \in 0..MaxDigits,
        sep \in {<<>>, <<"-">>, <<"a">>, <<" ">>, <<"-", "-">>}, b \in 0..MaxTail,
        trail \in {<<>>, <<" ">>}}
    \cup {<<"a", "b", "c">>}

InitNorm ==
    /\ script = "normalize_zip_token"
    /\ pc = "call"
    /\ arg \in ZipTexts
    /\ ret = None
    /\ zip_exists = FALSE
    /\ geo_exists = FALSE
    /\ Idle

\* both pipelines normalize the text
NormalizeCall ==
    /\ script = "normalize_zip_token" /\ pc = "call"
    /\ ret' = [half |-> normalize_zip_token(arg), muni |-> full_token_of(arg)]
    /\ pc' = "ret"
    /\ UNCHANGED <<script, discarded, zip_exists, geo_exists, nread, zip_map, muni_pts, seen, row, coords, features, agg_sums, agg_counts, matched, unmatched,
                   agg, out, arg>>

\* the returned token is normalized again
NormalizeAgain ==
    /\ script = "normalize_zip_token" /\ pc = "ret"
    /\ arg' = ret.half
    /\ ret' = [half |-> normalize_zip_token(ret.half), muni |-> full_token_of(ret.half)]
    /\ pc' = "again"
    /\ UNCHANGED <<script, discarded, zip_exists, geo_exists, nread, zip_map, muni_pts, seen, row, coords, features, agg_sums, agg_counts, matched, unmatched,
                   agg, out>>

NextNorm == NormalizeCall \/ NormalizeAgain

SpecNorm == InitNorm /\ [][NextNorm]_vars

----------------------------------------------------------------------------
(* Function-level harness: the display formatting of a total *)

MaxWhole == 12

\* fractions in units: none, inside the tolerance, outside it, and ordinary ones.
\* A fraction of exactly 2 units lies on the tolerance, where binary64 rounding
\* decides the comparison; it is left out.
FmtFracs == {0, 1, 3, Scale \div 8, Scale \div 4, Scale \div 2, Scale - 3, Scale - 1}

FmtValues == {<<w, f>> : w \in (0 - MaxWhole)..MaxWhole, f \in FmtFracs}

InitFmt ==
    /\ script = "format"
    /\ pc = "call"
    /\ arg \in FmtValues
    /\ ret = None
    /\ zip_exists = FALSE
    /\ geo_exists = FALSE
    /\ Idle

\* the three emission paths serialize the same total
FormatCall ==
    /\ script = "format" /\ pc = "call"
    /\ ret' = [half |-> FormatHalf(arg), muni |-> FormatMuni(arg), report |-> FormatReport(arg)]
    /\ pc' = "ret"
    /\ UNCHANGED <<script, discarded, zip_exists, geo_exists, nread, zip_map, muni_pts, seen, row, coords, features, agg_sums, agg_counts, matched, unmatched,
                   agg, out, arg>>

NextFmt == FormatCall

SpecFmt == InitFmt /\ [][NextFmt]_vars

----------------------------------------------------------------------------
(* Properties *)

\* the record in row has been processed as an individual (non-aggregated) one
IndividualRecord ==
    /\ script \in {"half", "muni"}
    /\ pc = "rows"
    /\ row # None
    /\ script = "half" => RowCity(row) \notin AGG_CITIES

\* both tables of the Geocode Index are complete
IndexBuilt ==
    \/ script = "half" /\ pc \in {"input", "rows", "done"}
    \/ script = "muni" /\ pc \in {"files", "rows", "done"}

RECURSIVE SumOfCity(_, _)
SumOfCity(rows, c) ==
    IF rows = <<>> THEN Zero
    ELSE IF RowCity(Head(rows)) = c
    THEN Add(RowAmountHalf(Head(rows)), SumOfCity(Tail(rows), c))
    ELSE SumOfCity(Tail(rows), c)

IsFiveDigits(t) == Len(t) = 5 /\ \A i \in 1..5 : t[i] \in Digit

IsFivePlusFour(t) ==
    /\ Len(t) = 10
    /\ t[6] = "-"
    /\ \A i \in (1..5) \cup (7..10) : t[i] \in Digit

\* C1: a non-aggregated record whose normalized postal token is a 5+4 token
\* absent from the postal table, while the 5-digit parent is present, resolves
\* to the parent's coordinate, in both pipelines.
ParentFallback ==
    IndividualRecord =>
        LET tok == normalize_zip_token(RowZipRaw(row))
            five == BeforeHyphen(tok)
        IN  (HasHyphen(tok) /\ tok \notin DOMAIN zip_map /\ five \in DOMAIN zip_map)
                => coords = zip_map[five]

\* C2: when the postal table holds the record's normalized token and the
\* place-name table holds its normalized city, the individual feature appended
\* for the record carries the postal table's coordinate, not the place-name
\* table's.
PostalOverPlace ==
    IndividualRecord =>
        LET tok == normalize_zip_token(RowZipRaw(row))
            city == RowCity(row)
        IN  (Truthy(tok) /\ tok \in DOMAIN zip_map /\ city \in DOMAIN muni_pts)
                => /\ coords = zip_map[tok]
                   /\ coords # muni_pts[city]
                   /\ features # <<>>
                   /\ features[Len(features)] = Feature(zip_map[tok], row)

PostalOverPlaceReached ==
    /\ IndividualRecord
    /\ script = "half"
    /\ normalize_zip_token(RowZipRaw(row)) \in DOMAIN zip_map
    /\ RowCity(row) \in DOMAIN muni_pts
    /\ features # <<>>
    /\ features[Len(features)].geometry.coordinates
           = zip_map[normalize_zip_token(RowZipRaw(row))]

\* C3: the normalizer returns the stripped text if it contains a hyphen, else
\* 5 digits, hyphen, 4 digits if it holds exactly 9 digits, else its first 5
\* digits if it holds 5 or more, else no token; the four examples come out as
\* stated; normalizing a returned token again returns it unchanged.
NormalizerCaseOrder ==
    script = "normalize_zip_token" =>
        /\ pc = "ret" =>
              LET s == Strip(arg)
                  d == DigitsOf(s)
                  expected ==
                      IF HasHyphen(s) THEN s
                      ELSE IF Len(d) = 9
                      THEN <<d[1], d[2], d[3], d[4], d[5], "-", d[6], d[7], d[8], d[9]>>
                      ELSE IF Len(d) >= 5 THEN <<d[1], d[2], d[3], d[4], d[5]>>
                      ELSE None
              IN  /\ ret.half = expected
                  /\ ret.muni = expected
                  /\ arg = <<"5", "9", "0", "4", "4", "-", "9", "3", "3", "8">> => ret.half = <<"5", "9", "0", "4", "4", "-", "9", "3", "3", "8">>
                  /\ arg = <<"5", "9", "0", "4", "4", "9", "3", "3", "8">> => ret.half = <<"5", "9", "0", "4", "4", "-", "9", "3", "3", "8">>
                  /\ arg = <<"5", "9", "0", "4", "4">> => ret.half = <<"5", "9", "0", "4", "4">>
                  /\ arg = <<"a", "b", "c">> => ret.half = None
        /\ pc = "again" => ret.half = arg /\ ret.muni = arg

NormalizerCaseOrderReached ==
    /\ script = "normalize_zip_token"
    /\ pc = "again"
    /\ arg = <<"5", "9", "0", "4", "4", "-", "9", "3", "3", "8">>
    /\ ret.half = <<"5", "9", "0", "4", "4", "-", "9", "3", "3", "8">>

\* C4: every token the normalizer returns is exactly 5 digits, or 5 digits,
\* one hyphen and 4 digits.
TokenWellFormed ==
    (script = "normalize_zip_token" /\ pc = "ret") =>
        /\ ret.half = None \/ IsFiveDigits(ret.half) \/ IsFivePlusFour(ret.half)
        /\ ret.muni = None \/ IsFiveDigits(ret.muni) \/ IsFivePlusFour(ret.muni)

\* C5: once a key is in the postal table, no later row of the reference ZIP
\* source changes the coordinate stored under it.
FirstSeenWins ==
    [][\A k \in DOMAIN zip_map : k \in DOMAIN zip_map' /\ zip_map'[k] = zip_map[k]]_vars

\* C6: once the Geocode Index is built, "butte" and "anaconda" map to the
\* manual coordinates, in the place-name table of either pipeline.
OverrideWins ==
    (script \in {"half", "muni"} /\ IndexBuilt) =>
        /\ Get(muni_pts, <<"b", "u", "t", "t", "e">>) = ManualButte
        /\ Get(muni_pts, <<"a", "n", "a", "c", "o", "n", "d", "a">>) = ManualAnaconda

\* C7: a record whose city is an aggregate city adds its parsed amount to that
\* city's sum and one to that city's count, changes no other bucket and
\* appends no feature.
AggregateRouting ==
    [][(script = "half" /\ pc = "rows" /\ pc' = "rows"
            /\ RowCity(row') \in AGG_CITIES)
        => /\ agg_sums' = [agg_sums EXCEPT ![RowCity(row')] = Add(@, RowAmountHalf(row'))]
           /\ agg_counts' = [agg_counts EXCEPT ![RowCity(row')] = @ + 1]
           /\ features' = features]_vars

AggregateRoutingReached ==
    /\ script = "half"
    /\ pc = "rows"
    /\ row # None
    /\ RowCity(row) \in AGG_CITIES
    /\ Truthy(ResolveHalf(zip_map, muni_pts, row))
    /\ agg_counts[RowCity(row)] = 2
    /\ features = <<>>

\* C8: the written collection holds exactly one synthesized feature for each
\* aggregate city whose records sum to a non-zero total, carrying that total
\* as formatted by the pipeline, and none for a city without records or with a
\* zero total.
AggregateEmission ==
    (script = "half" /\ pc = "done" /\ out.written) =>
        \A c \in AGG_CITIES :
            LET total == SumOfCity(seen, c)
                synth == {i \in 1..Len(out.geojson) :
                             RowGet(out.geojson[i].properties, <<"N", "A", "M", "E", " ", "O", "F", " ", "C", "O", "N", "T", "R", "I", "B", "U", "T", "O", "R">>)
                                 = Title(c)}
            IN  IF total = Zero THEN synth = {}
                ELSE /\ Cardinality(synth) = 1
                     /\ \A i \in synth :
                           /\ RowGet(out.geojson[i].properties, <<"A", "M", "N", "T">>) = FormatHalf(total)
                           /\ out.geojson[i].geometry.coordinates = FIXED_COORDS[c]

AggregateEmissionReached ==
    /\ script = "half"
    /\ pc = "done"
    /\ out.written
    /\ Len(seen) = 3
    /\ \A i \in 1..3 : RowCity(seen[i]) = <<"b", "o", "z", "e", "m", "a", "n">>
    /\ {RowAmountHalf(seen[i]) : i \in 1..3} = {<<10, 0>>, <<20, 0>>, <<30, 0>>}
    /\ Len(out.geojson) = 1
    /\ RowGet(out.geojson[1].properties, <<"A", "M", "N", "T">>) = <<"6", "0">>

\* C9: an absent reference source never ends the run with an exception.
MissingSourceNotFatal ==
    (script \in {"half", "muni"} /\ (~zip_exists \/ ~geo_exists))
        => pc # "FileNotFoundError"

\* C10: every emission path writes a total within 1e-9 of its nearest integer
\* as that integer and any other total in its natural decimal representation,
\* so the three paths write the same text for the same total (the report
\* behind its currency sign).
AmountDisplayRule ==
    (script = "format" /\ pc = "ret") =>
        LET f == arg[2]
            near == f < Tol \/ Scale - f < Tol
            text == IF near THEN IntStr(Round(arg)) ELSE FloatStr(arg)
        IN  /\ ret.half = text
            /\ ret.muni = text
            /\ ret.report = <<"$">> \o text

\* the step reads one record that is not routed to an aggregate bucket
IndividualStep ==
    /\ script \in {"half", "muni"}
    /\ pc = "rows"
    /\ row' # None
    /\ seen' = Append(seen, row')
    /\ script = "half" => RowCity(row') \notin AGG_CITIES

\* the coordinate the pipeline that runs resolves the record read to
ResolvedOfStep ==
    IF script = "half" THEN ResolveHalf(zip_map, muni_pts, row')
    ELSE ResolveMuni(zip_map, muni_pts, row')

\* a resolved record: its city joins the matched set and one feature with the
\* coordinate and the whole record is appended
ResolvedHandling ==
    /\ matched' = matched \cup {RowCity(row')}
    /\ unmatched' = unmatched
    /\ features' = Append(features, Feature(ResolvedOfStep, row'))

\* an unresolved record: nothing is appended, no bucket changes, the run goes
\* on, and the city joins the unmatched set exactly when it is non-empty
DroppedHandling ==
    /\ pc' = "rows"
    /\ features' = features
    /\ agg' = agg
    /\ agg_sums' = agg_sums
    /\ agg_counts' = agg_counts
    /\ matched' = matched
    /\ unmatched' = IF Truthy(RowCity(row')) THEN unmatched \cup {RowCity(row')}
                    ELSE unmatched

\* the handling of C11 in the per-municipality pipeline alone
UnresolvedHandlingMuni ==
    [][(IndividualStep /\ script = "muni")
        => IF Truthy(ResolvedOfStep) THEN ResolvedHandling ELSE DroppedHandling]_vars

\* C11: a record that is not routed to an aggregate bucket either resolves,
\* and then its normalized city joins the matched set and exactly one feature
\* with the resolved coordinate and the whole record as properties is
\* appended, or it does not resolve, and then the feature list and every
\* bucket stay as they were, no error is raised and its normalized city joins
\* the unmatched set exactly when it is non-empty.
UnresolvedHandling ==
    [][IndividualStep
        => IF Truthy(ResolvedOfStep) THEN ResolvedHandling ELSE DroppedHandling]_vars

\* the per-municipality pipeline has met a resolved record, a dropped record
\* with a city and a dropped record without one in the same file
UnresolvedHandlingMuniReached ==
    /\ script = "muni"
    /\ pc = "rows"
    /\ Len(seen) = 3
    /\ Len(features) = 1
    /\ matched # {}
    /\ unmatched # {}
    /\ \E i \in 1..3 : ~Truthy(RowCity(seen[i]))
                       /\ ~Truthy(ResolveMuni(zip_map, muni_pts, seen[i]))

\* the coordinate each record read so far from the file resolves to
ResolvedCoords ==
    [i \in 1..Len(seen) |-> ResolveMuni(zip_map, muni_pts, seen[i])]

\* the records of the file read so far that resolve, by position
ResolvedSoFar == {i \in 1..Len(seen) : Truthy(ResolvedCoords[i])}

\* the least position of I
FirstOf(I) == CHOOSE x \in I : \A y \in I : x <= y

\* the sum of amt over the positions I, added in the order of the records
RECURSIVE SumOfRecords(_, _)
SumOfRecords(amt, I) ==
    IF I = {} THEN Zero
    ELSE LET i == CHOOSE x \in I : \A y \in I : y <= x
         IN  Add(SumOfRecords(amt, I \ {i}), amt[i])

\* the individual features of the records at the positions from, from + 1, ...
\* that resolve, in their order
RECURSIVE FeaturesOfRecords(_, _)
FeaturesOfRecords(res, from) ==
    IF from > Len(seen) THEN <<>>
    ELSE (IF Truthy(res[from]) THEN <<Feature(res[from], seen[from])>> ELSE <<>>)
             \o FeaturesOfRecords(res, from + 1)

\* C12: in the per-municipality pipeline, while and after a file is read, the
\* bucket keys are the matched set, there are as many individual features as
\* resolved records, each bucket holds the sum of the amounts of the resolved
\* records of its city and the coordinate of the first of them, a file starts
\* with empty buckets, sets and feature list, and what is written for a file
\* follows from that file's records alone.
PerFileConsistency ==
    (script = "muni" /\ pc \in {"rows", "files"}) =>
        LET res == ResolvedCoords
            city == [i \in 1..Len(seen) |-> RowCity(seen[i])]
            amt == [i \in 1..Len(seen) |-> get_amount_from_row(seen[i])]
            R == {i \in 1..Len(seen) : Truthy(res[i])}
            OfCity(c) == {i \in R : city[i] = c}
        IN  /\ {agg[b].key : b \in 1..Len(agg)} = matched
            /\ \A b1, b2 \in 1..Len(agg) : agg[b1].key = agg[b2].key => b1 = b2
            /\ Len(features) = Cardinality(R)
            /\ \A b \in 1..Len(agg) :
                  /\ OfCity(agg[b].key) # {}
                  /\ agg[b].sum = SumOfRecords(amt, OfCity(agg[b].key))
                  /\ agg[b].coords = res[FirstOf(OfCity(agg[b].key))]
            /\ seen = <<>> =>
                  (agg = <<>> /\ matched = {} /\ unmatched = {} /\ features = <<>>)
            /\ out.written =>
                  /\ out.geojson = FeaturesOfRecords(res, 1)
                  /\ Len(out.agg_geo) = Cardinality({city[i] : i \in R})
                  /\ \A k \in 1..Len(out.agg_geo) :
                        \E i \in R :
                            /\ out.agg_geo[k].geometry.coordinates
                                   = res[FirstOf(OfCity(city[i]))]
                            /\ RowGet(out.agg_geo[k].properties, <<"A", "M", "N", "T">>)
                                   = FormatMuni(SumOfRecords(amt, OfCity(city[i])))

\* a later file, after a file that left buckets, has been written: two of its
\* records resolved to different coordinates in one city's bucket and a third
\* did not resolve
PerFileConsistencyReached ==
    /\ script = "muni"
    /\ pc = "files"
    /\ out.written
    /\ discarded
    /\ Len(seen) = 3
    /\ Cardinality(ResolvedSoFar) = 2
    /\ Len(agg) = 1
    /\ agg[1].sum = <<50, 0>>
    /\ \E i \in ResolvedSoFar : ResolvedCoords[i] # agg[1].coords

====
